---- MODULE Spec2Model ----
(***************************************************************************)
(* Model of the two linked-list programs of the repository:                *)
(*   - E-Library book management: ELibrary, a sorted singly linked list of *)
(*     BookNode with an undo stack;                                        *)
(*   - Virtual train route planner: DoublyLinkedRoute, CircularRoute and   *)
(*     TrainCursor.                                                        *)
(* Objects live in a heap (a sequence of records); a reference is the      *)
(* index of the object in its heap and None is Python's None.  Strings are *)
(* sequences of code points, so that str.lower() and the comparison of     *)
(* strings are computed and not assumed.                                   *)
(***************************************************************************)
EXTENDS Integers, Sequences, FiniteSets, TLC

\* ELibrary: the heap of BookNode objects, self.head, self.undo_stack, the
\* message the last call printed and the one before it, and the number of
\* borrow_book and return_book calls that reported success so far less the
\* number of undo calls that did.
VARIABLES books, head, undo_stack, out, prev_out, net_pushes

\* The route planner: the heap of Node objects, the route object, the
\* cursor's current_node, what the last call returned, and the sequence of
\* nodes the calls made so far should have left in the route.
VARIABLES nodes, route, current_node, ret, expected

\* The generator object a call of CircularRoute.iter_once returned: where
\* it stands and its local variables.
VARIABLES gen

lib_vars == <<books, head, undo_stack, out, prev_out, net_pushes>>

route_vars == <<nodes, route, current_node, ret, expected, gen>>

vars == <<books, head, undo_stack, out, prev_out, net_pushes,
          nodes, route, current_node, ret, expected, gen>>

None == 0

\* ------------------------------------------------------------------------
\* Bounds of the model
\* ------------------------------------------------------------------------
\* Number of BookNode objects ever created by add_book.
MaxBooks == 3
\* Largest undo stack.
MaxUndo == 3

\* ------------------------------------------------------------------------
\* Strings
\* ------------------------------------------------------------------------
\* "a", "B", "b": "B" and "b" differ only in case, and "B" < "a" by code
\* point while "a" < "b" once lower-cased.
Titles == { <<97>>, <<66>>, <<98>> }

\* str.lower() on ASCII: 'A'..'Z' (65..90) are moved to 'a'..'z'.
Lower(s) == [i \in DOMAIN s |-> IF s[i] >= 65 /\ s[i] <= 90 THEN s[i] + 32 ELSE s[i]]

\* Python's a < b on strings: lexicographic by code point, a proper prefix
\* being smaller.
StrLess(a, b) ==
    \E i \in 1..(Len(b)) :
        /\ \A j \in 1..(i - 1) : j <= Len(a) /\ a[j] = b[j]
        /\ \/ i = Len(a) + 1
           \/ i <= Len(a) /\ a[i] < b[i]

\* ------------------------------------------------------------------------
\* ELibrary
\* ------------------------------------------------------------------------
\* BookNode.__init__: the author is stored and read by search only, which
\* none of the operations below call; it is left out of the record.
BookNode(title, nxt) == [title |-> title, available |-> TRUE, next |-> nxt]

\* The ELibrary object together with the heap of its nodes and the message
\* its last call printed.
Lib == [books |-> books, head |-> head, undo_stack |-> undo_stack, out |-> out]

\* add_scan with the titles compared as written, lower() forgotten.
RECURSIVE add_scan_no_lower(_, _, _)
add_scan_no_lower(bs, current, title) ==
    IF bs[current].next # None
       /\ StrLess(bs[bs[current].next].title, title)
    THEN add_scan_no_lower(bs, bs[current].next, title)
    ELSE current

\* The while loop of add_book: the last node whose successor is absent or
\* not smaller than the new title.
RECURSIVE add_scan(_, _, _)
add_scan(bs, current, title) ==
    IF bs[current].next # None
       /\ StrLess(Lower(bs[bs[current].next].title), Lower(title))
    THEN add_scan(bs, bs[current].next, title)
    ELSE current

add_book(L, title) ==
    LET new_node == Len(L.books) + 1 IN
    IF L.head = None \/ StrLess(Lower(title), Lower(L.books[L.head].title))
    THEN [L EXCEPT !.books = Append(@, BookNode(title, L.head)),
                   !.head = new_node,
                   !.out = "Added book"]
    ELSE LET current == add_scan(L.books, L.head, title) IN
         [L EXCEPT !.books = [Append(@, BookNode(title, L.books[current].next))
                                 EXCEPT ![current].next = new_node],
                   !.out = "Added book"]

\* The scan of borrow_book and return_book: the first node from current
\* whose lower-cased title equals the lower-cased argument, or None.
RECURSIVE find_title(_, _, _)
find_title(bs, current, title) ==
    IF current = None THEN None
    ELSE IF Lower(bs[current].title) = Lower(title) THEN current
    ELSE find_title(bs, bs[current].next, title)

\* borrow_book with the push placed after the if/else: a refused borrow is
\* recorded too.
borrow_book_always_push(L, title) ==
    LET current == find_title(L.books, L.head, title) IN
    IF current = None THEN [L EXCEPT !.out = "Book not found"]
    ELSE IF L.books[current].available
    THEN [L EXCEPT !.books[current].available = FALSE,
                   !.undo_stack = Append(@, <<"borrow", current>>),
                   !.out = "You borrowed"]
    ELSE [L EXCEPT !.undo_stack = Append(@, <<"borrow", current>>),
                   !.out = "Book already borrowed"]

borrow_book(L, title) ==
    LET current == find_title(L.books, L.head, title) IN
    IF current = None THEN [L EXCEPT !.out = "Book not found"]
    ELSE IF L.books[current].available
    THEN [L EXCEPT !.books[current].available = FALSE,
                   !.undo_stack = Append(@, <<"borrow", current>>),
                   !.out = "You borrowed"]
    ELSE [L EXCEPT !.out = "Book already borrowed"]

\* The scan of a return_book that looks for the first borrowed entry of the
\* title instead of the first entry of the title.
RECURSIVE find_borrowed(_, _, _)
find_borrowed(bs, current, title) ==
    IF current = None THEN None
    ELSE IF Lower(bs[current].title) = Lower(title) /\ ~bs[current].available
    THEN current
    ELSE find_borrowed(bs, bs[current].next, title)

\* return_book giving back the first borrowed entry of the title.
return_book_first_borrowed(L, title) ==
    LET current == find_borrowed(L.books, L.head, title) IN
    IF current = None THEN [L EXCEPT !.out = "Book not found"]
    ELSE [L EXCEPT !.books[current].available = TRUE,
                   !.undo_stack = Append(@, <<"return", current>>),
                   !.out = "You returned"]

\* return_book recording its action under borrow_book's tag.
return_book_wrong_tag(L, title) ==
    LET current == find_title(L.books, L.head, title) IN
    IF current = None THEN [L EXCEPT !.out = "Book not found"]
    ELSE IF ~L.books[current].available
    THEN [L EXCEPT !.books[current].available = TRUE,
                   !.undo_stack = Append(@, <<"borrow", current>>),
                   !.out = "You returned"]
    ELSE [L EXCEPT !.out = "Book was not borrowed"]

return_book(L, title) ==
    LET current == find_title(L.books, L.head, title) IN
    IF current = None THEN [L EXCEPT !.out = "Book not found"]
    ELSE IF ~L.books[current].available
    THEN [L EXCEPT !.books[current].available = TRUE,
                   !.undo_stack = Append(@, <<"return", current>>),
                   !.out = "You returned"]
    ELSE [L EXCEPT !.out = "Book was not borrowed"]

\* undo reading the top of the stack (undo_stack[-1]) without popping it.
undo_peek(L) ==
    IF L.undo_stack = <<>> THEN [L EXCEPT !.out = "No actions to undo"]
    ELSE LET action == L.undo_stack[Len(L.undo_stack)][1]
             book == L.undo_stack[Len(L.undo_stack)][2]
         IN IF action = "borrow"
            THEN [L EXCEPT !.books[book].available = TRUE,
                           !.out = "Undo: Returned"]
            ELSE [L EXCEPT !.books[book].available = FALSE,
                           !.out = "Undo: Borrowed"]

\* undo without the return after the empty-stack message: pop() on the
\* empty list raises IndexError.
undo_no_return(L) ==
    IF L.undo_stack = <<>> THEN [L EXCEPT !.out = "IndexError"]
    ELSE LET action == L.undo_stack[Len(L.undo_stack)][1]
             book == L.undo_stack[Len(L.undo_stack)][2]
             popped == SubSeq(L.undo_stack, 1, Len(L.undo_stack) - 1)
         IN IF action = "borrow"
            THEN [L EXCEPT !.undo_stack = popped,
                           !.books[book].available = TRUE,
                           !.out = "Undo: Returned"]
            ELSE [L EXCEPT !.undo_stack = popped,
                           !.books[book].available = FALSE,
                           !.out = "Undo: Borrowed"]

\* undo pushing the inverse action after the pop, so that an undo can be
\* undone.
undo_pushes_inverse(L) ==
    IF L.undo_stack = <<>> THEN [L EXCEPT !.out = "No actions to undo"]
    ELSE LET action == L.undo_stack[Len(L.undo_stack)][1]
             book == L.undo_stack[Len(L.undo_stack)][2]
             popped == SubSeq(L.undo_stack, 1, Len(L.undo_stack) - 1)
         IN IF action = "borrow"
            THEN [L EXCEPT !.undo_stack = Append(popped, <<"return", book>>),
                           !.books[book].available = TRUE,
                           !.out = "Undo: Returned"]
            ELSE [L EXCEPT !.undo_stack = Append(popped, <<"borrow", book>>),
                           !.books[book].available = FALSE,
                           !.out = "Undo: Borrowed"]

undo(L) ==
    IF L.undo_stack = <<>> THEN [L EXCEPT !.out = "No actions to undo"]
    ELSE LET action == L.undo_stack[Len(L.undo_stack)][1]
             book == L.undo_stack[Len(L.undo_stack)][2]
             popped == SubSeq(L.undo_stack, 1, Len(L.undo_stack) - 1)
         IN IF action = "borrow"
            THEN [L EXCEPT !.undo_stack = popped,
                           !.books[book].available = TRUE,
                           !.out = "Undo: Returned"]
            ELSE IF action = "return"
            THEN [L EXCEPT !.undo_stack = popped,
                           !.books[book].available = FALSE,
                           !.out = "Undo: Borrowed"]
            ELSE [L EXCEPT !.undo_stack = popped]

\* ------------------------------------------------------------------------
\* Station, Node and the two routes
\* ------------------------------------------------------------------------
\* Station(name, minutes_to_next): "N" 1, "n" 2, "e" 4.  "N" and "n" are
\* the same station name up to case; the minutes are distinct powers of
\* two, so a sum of minutes tells which stations were summed.
Station(name, minutes_to_next) == [name |-> name, minutes_to_next |-> minutes_to_next]

Stations == { Station(<<78>>, 1), Station(<<110>>, 2), Station(<<101>>, 4) }

\* Names asked for: "N", "E" (matches "e" up to case) and "s", which no
\* station carries.
Names == { <<78>>, <<69>>, <<115>> }

\* Node.__init__
Node(station) == [station |-> station, prev |-> None, next |-> None]

\* The route object (of either class), the cursor on it, the heap of Node
\* objects, and what the last call returned.
World == [nodes |-> nodes, route |-> route, current_node |-> current_node, ret |-> ret]

Returns(op, value) == [op |-> op, value |-> value]

\* An attribute read on None (node.prev.next with node.prev None): Python
\* raises AttributeError and the call ends there.
AttributeError(W, op) == [W EXCEPT !.ret = Returns(op, "AttributeError")]

\* DoublyLinkedRoute.__init__ and CircularRoute.__init__ without stations.
\* A linear route has no _size and a circular route no tail; the unused
\* field stays at its initial value.
EmptyRoute(kind) == [kind |-> kind, head |-> None, tail |-> None, size |-> 0]

\* --- DoublyLinkedRoute ---
DoublyLinkedRoute_append(W, station) ==
    LET node == Len(W.nodes) + 1
        ns == Append(W.nodes, Node(station))
    IN IF W.route.tail = None
       THEN [W EXCEPT !.nodes = ns,
                      !.route.head = node,
                      !.route.tail = node,
                      !.ret = Returns("append", node)]
       ELSE [W EXCEPT !.nodes = [ns EXCEPT ![node].prev = W.route.tail,
                                           ![W.route.tail].next = node],
                      !.route.tail = node,
                      !.ret = Returns("append", node)]

\* The while loop of DoublyLinkedRoute.find.
RECURSIVE linear_find(_, _, _)
linear_find(ns, cur, name_l) ==
    IF cur = None THEN None
    ELSE IF Lower(ns[cur].station.name) = name_l THEN cur
    ELSE linear_find(ns, ns[cur].next, name_l)

DoublyLinkedRoute_find(W, name) == linear_find(W.nodes, W.route.head, Lower(name))

\* insert_after without nxt.prev = node: the successor still points back at
\* the anchor.
DoublyLinkedRoute_insert_after_no_backlink(W, anchor, station) ==
    LET node == Len(W.nodes) + 1
        nxt == W.nodes[anchor].next
        ns == [Append(W.nodes, Node(station)) EXCEPT ![anchor].next = node,
                                                     ![node].prev = anchor,
                                                     ![node].next = nxt]
    IN IF nxt # None
       THEN [W EXCEPT !.nodes = ns,
                      !.ret = Returns("insert_after", node)]
       ELSE [W EXCEPT !.nodes = ns,
                      !.route.tail = node,
                      !.ret = Returns("insert_after", node)]

DoublyLinkedRoute_insert_after(W, anchor, station) ==
    LET node == Len(W.nodes) + 1
        nxt == W.nodes[anchor].next
        ns == [Append(W.nodes, Node(station)) EXCEPT ![anchor].next = node,
                                                     ![node].prev = anchor,
                                                     ![node].next = nxt]
    IN IF nxt # None
       THEN [W EXCEPT !.nodes = [ns EXCEPT ![nxt].prev = node],
                      !.ret = Returns("insert_after", node)]
       ELSE [W EXCEPT !.nodes = ns,
                      !.route.tail = node,
                      !.ret = Returns("insert_after", node)]

DoublyLinkedRoute_remove(W, node) ==
    LET W1 == IF W.nodes[node].prev # None
              THEN [W EXCEPT !.nodes[W.nodes[node].prev].next = W.nodes[node].next]
              ELSE [W EXCEPT !.route.head = W.nodes[node].next]
        W2 == IF W1.nodes[node].next # None
              THEN [W1 EXCEPT !.nodes[W1.nodes[node].next].prev = W1.nodes[node].prev]
              ELSE [W1 EXCEPT !.route.tail = W1.nodes[node].prev]
    IN [W2 EXCEPT !.nodes[node].prev = None,
                  !.nodes[node].next = None,
                  !.ret = Returns("remove", None)]

\* The nodes iter_forward yields when run to its end.  fuel only ends the
\* walk of a list that does not end in None.
RECURSIVE forward_from(_, _, _)
forward_from(ns, cur, fuel) ==
    IF cur = None \/ fuel = 0 THEN <<>>
    ELSE <<cur>> \o forward_from(ns, ns[cur].next, fuel - 1)

iter_forward(W) == forward_from(W.nodes, W.route.head, Len(W.nodes) + 1)

RECURSIVE backward_from(_, _, _)
backward_from(ns, cur, fuel) ==
    IF cur = None \/ fuel = 0 THEN <<>>
    ELSE <<cur>> \o backward_from(ns, ns[cur].prev, fuel - 1)

iter_backward(W) == backward_from(W.nodes, W.route.tail, Len(W.nodes) + 1)

\* --- CircularRoute ---
CircularRoute_append(W, station) ==
    LET node == Len(W.nodes) + 1
        ns == Append(W.nodes, Node(station))
    IN IF W.route.head = None
       THEN [W EXCEPT !.nodes = [ns EXCEPT ![node].next = node, ![node].prev = node],
                      !.route.head = node,
                      !.route.size = @ + 1,
                      !.ret = Returns("append", node)]
       ELSE LET tail == W.nodes[W.route.head].prev IN
            IF tail = None THEN AttributeError(W, "append")
            ELSE [W EXCEPT !.nodes = [ns EXCEPT ![node].prev = tail,
                                                ![node].next = W.route.head,
                                                ![tail].next = node,
                                                ![W.route.head].prev = node],
                           !.route.size = @ + 1,
                           !.ret = Returns("append", node)]

\* The for loop of CircularRoute.find: at most left more nodes are looked at.
RECURSIVE circular_find(_, _, _, _)
circular_find(ns, cur, left, name_l) ==
    IF left = 0 THEN None
    ELSE IF Lower(ns[cur].station.name) = name_l THEN cur
    ELSE circular_find(ns, ns[cur].next, left - 1, name_l)

CircularRoute_find(W, name) ==
    IF W.route.head = None THEN None
    ELSE circular_find(W.nodes, W.route.head, W.route.size, Lower(name))

\* insert_after without self._size += 1.
CircularRoute_insert_after_no_count(W, anchor, station) ==
    LET node == Len(W.nodes) + 1
        nxt == W.nodes[anchor].next
        ns == [Append(W.nodes, Node(station)) EXCEPT ![anchor].next = node,
                                                     ![node].prev = anchor,
                                                     ![node].next = nxt]
    IN IF nxt = None THEN AttributeError([W EXCEPT !.nodes = ns], "insert_after")
       ELSE [W EXCEPT !.nodes = [ns EXCEPT ![nxt].prev = node],
                      !.ret = Returns("insert_after", node)]

CircularRoute_insert_after(W, anchor, station) ==
    LET node == Len(W.nodes) + 1
        nxt == W.nodes[anchor].next
        ns == [Append(W.nodes, Node(station)) EXCEPT ![anchor].next = node,
                                                     ![node].prev = anchor,
                                                     ![node].next = nxt]
    IN IF nxt = None THEN AttributeError([W EXCEPT !.nodes = ns], "insert_after")
       ELSE [W EXCEPT !.nodes = [ns EXCEPT ![nxt].prev = node],
                      !.route.size = @ + 1,
                      !.ret = Returns("insert_after", node)]

\* remove without "if node is self.head: self.head = node.next".
CircularRoute_remove_keeps_head(W, node) ==
    IF W.route.head = None THEN [W EXCEPT !.ret = Returns("remove", None)]
    ELSE IF W.route.size = 1 /\ node = W.route.head
    THEN [W EXCEPT !.route.head = None,
                   !.route.size = 0,
                   !.nodes[node].prev = None,
                   !.nodes[node].next = None,
                   !.ret = Returns("remove", None)]
    ELSE IF W.nodes[node].prev = None THEN AttributeError(W, "remove")
    ELSE LET W1 == [W EXCEPT !.nodes[W.nodes[node].prev].next = W.nodes[node].next] IN
         IF W1.nodes[node].next = None THEN AttributeError(W1, "remove")
         ELSE LET W2 == [W1 EXCEPT !.nodes[W1.nodes[node].next].prev = W1.nodes[node].prev]
              IN [W2 EXCEPT !.nodes[node].prev = None,
                            !.nodes[node].next = None,
                            !.route.size = @ - 1,
                            !.ret = Returns("remove", None)]

\* remove without "node.prev = node.next = None": the removed node keeps
\* pointing into the route.
CircularRoute_remove_keeps_links(W, node) ==
    IF W.route.head = None THEN [W EXCEPT !.ret = Returns("remove", None)]
    ELSE IF W.route.size = 1 /\ node = W.route.head
    THEN [W EXCEPT !.route.head = None,
                   !.route.size = 0,
                   !.ret = Returns("remove", None)]
    ELSE IF W.nodes[node].prev = None THEN AttributeError(W, "remove")
    ELSE LET W1 == [W EXCEPT !.nodes[W.nodes[node].prev].next = W.nodes[node].next] IN
         IF W1.nodes[node].next = None THEN AttributeError(W1, "remove")
         ELSE LET W2 == [W1 EXCEPT !.nodes[W1.nodes[node].next].prev = W1.nodes[node].prev]
                  W3 == IF node = W2.route.head
                        THEN [W2 EXCEPT !.route.head = W2.nodes[node].next]
                        ELSE W2
              IN [W3 EXCEPT !.route.size = @ - 1,
                            !.ret = Returns("remove", None)]

\* remove without the branch for the only element: the general unlinking
\* runs on a node that is its own neighbour.
CircularRoute_remove_no_sole_case(W, node) ==
    IF W.route.head = None THEN [W EXCEPT !.ret = Returns("remove", None)]
    ELSE IF W.nodes[node].prev = None THEN AttributeError(W, "remove")
    ELSE LET W1 == [W EXCEPT !.nodes[W.nodes[node].prev].next = W.nodes[node].next] IN
         IF W1.nodes[node].next = None THEN AttributeError(W1, "remove")
         ELSE LET W2 == [W1 EXCEPT !.nodes[W1.nodes[node].next].prev = W1.nodes[node].prev]
                  W3 == IF node = W2.route.head
                        THEN [W2 EXCEPT !.route.head = W2.nodes[node].next]
                        ELSE W2
              IN [W3 EXCEPT !.nodes[node].prev = None,
                            !.nodes[node].next = None,
                            !.route.size = @ - 1,
                            !.ret = Returns("remove", None)]

CircularRoute_remove(W, node) ==
    IF W.route.head = None THEN [W EXCEPT !.ret = Returns("remove", None)]
    ELSE IF W.route.size = 1 /\ node = W.route.head
    THEN [W EXCEPT !.route.head = None,
                   !.route.size = 0,
                   !.nodes[node].prev = None,
                   !.nodes[node].next = None,
                   !.ret = Returns("remove", None)]
    ELSE IF W.nodes[node].prev = None THEN AttributeError(W, "remove")
    ELSE LET W1 == [W EXCEPT !.nodes[W.nodes[node].prev].next = W.nodes[node].next] IN
         IF W1.nodes[node].next = None THEN AttributeError(W1, "remove")
         ELSE LET W2 == [W1 EXCEPT !.nodes[W1.nodes[node].next].prev = W1.nodes[node].prev]
                  W3 == IF node = W2.route.head
                        THEN [W2 EXCEPT !.route.head = W2.nodes[node].next]
                        ELSE W2
              IN [W3 EXCEPT !.nodes[node].prev = None,
                            !.nodes[node].next = None,
                            !.route.size = @ - 1,
                            !.ret = Returns("remove", None)]

\* The nodes iter_once yields when run to its end without the route being
\* changed meanwhile: _size nodes from head.
RECURSIVE once_from(_, _, _)
once_from(ns, cur, left) ==
    IF left = 0 \/ cur = None THEN <<>>
    ELSE <<cur>> \o once_from(ns, ns[cur].next, left - 1)

iter_once(W) ==
    IF W.route.head = None THEN <<>>
    ELSE once_from(W.nodes, W.route.head, W.route.size)

CircularRoute_size(W) == W.route.size

\* route.find(name): the method of the route's class.
route_find(W, name) ==
    IF W.route.kind = "circular" THEN CircularRoute_find(W, name)
    ELSE DoublyLinkedRoute_find(W, name)

\* ------------------------------------------------------------------------
\* TrainCursor
\* ------------------------------------------------------------------------
\* eta_to's None.  Minutes are never negative, so no sum is NoEta.
NoEta == -1

\* TrainCursor.__init__(route, start); the empty string stands for a start
\* that is not given (None) or empty, both false in "if start".
TrainCursor_init(W, start) ==
    LET found == route_find(W, start) IN
    IF start # <<>> /\ found # None
    THEN [W EXCEPT !.current_node = found, !.ret = Returns("TrainCursor", found)]
    ELSE [W EXCEPT !.current_node = W.route.head,
                   !.ret = Returns("TrainCursor", W.route.head)]

\* current() returns the station of current_node, or None; the station is
\* named here by the node that holds it.
current(W) == W.current_node

\* next's loop assigning current_node = nxt before testing nxt: running off
\* the end of a linear route leaves the cursor on None.
RECURSIVE next_loop_assigns_first(_, _, _)
next_loop_assigns_first(ns, cur, steps) ==
    IF steps = 0 THEN cur
    ELSE IF ns[cur].next = None THEN None
    ELSE next_loop_assigns_first(ns, ns[cur].next, steps - 1)

\* The for loop of next: the node the cursor is on after steps more steps.
RECURSIVE next_loop(_, _, _)
next_loop(ns, cur, steps) ==
    IF steps = 0 THEN cur
    ELSE IF ns[cur].next = None THEN cur
    ELSE next_loop(ns, ns[cur].next, steps - 1)

next(W, steps) ==
    IF W.current_node = None THEN [W EXCEPT !.ret = Returns("next", None)]
    ELSE LET cur == next_loop(W.nodes, W.current_node, steps) IN
         [W EXCEPT !.current_node = cur, !.ret = Returns("next", cur)]

\* prev's loop copied from next's with the link left as next.
RECURSIVE prev_loop_follows_next(_, _, _)
prev_loop_follows_next(ns, cur, steps) ==
    IF steps = 0 THEN cur
    ELSE IF ns[cur].next = None THEN cur
    ELSE prev_loop_follows_next(ns, ns[cur].next, steps - 1)

RECURSIVE prev_loop(_, _, _)
prev_loop(ns, cur, steps) ==
    IF steps = 0 THEN cur
    ELSE IF ns[cur].prev = None THEN cur
    ELSE prev_loop(ns, ns[cur].prev, steps - 1)

prev(W, steps) ==
    IF W.current_node = None THEN [W EXCEPT !.ret = Returns("prev", None)]
    ELSE LET cur == prev_loop(W.nodes, W.current_node, steps) IN
         [W EXCEPT !.current_node = cur, !.ret = Returns("prev", cur)]

jump_to(W, name) ==
    LET found == route_find(W, name) IN
    IF found # None
    THEN [W EXCEPT !.current_node = found, !.ret = Returns("jump_to", TRUE)]
    ELSE [W EXCEPT !.ret = Returns("jump_to", FALSE)]

\* What one run of eta_to's while loop did: the value returned, how many
\* times a node's name was compared, and how many successor links were
\* followed (cur = nxt).
EtaRun(value, examined, followed) ==
    [value |-> value, examined |-> examined, followed |-> followed]

\* eta_to returning the minutes summed so far where it should return None.
RECURSIVE eta_loop_end_returns_minutes(_, _, _, _, _, _, _)
eta_loop_end_returns_minutes(ns, cur, minutes, visited, limit, is_circular, target_name) ==
    IF Lower(ns[cur].station.name) = Lower(target_name)
    THEN EtaRun(minutes, visited + 1, visited)
    ELSE LET nxt == ns[cur].next IN
         IF nxt = None THEN EtaRun(minutes, visited + 1, visited)
         ELSE IF is_circular /\ visited + 1 > limit
         THEN EtaRun(minutes + ns[cur].station.minutes_to_next, visited + 1, visited + 1)
         ELSE eta_loop_end_returns_minutes(ns, nxt, minutes + ns[cur].station.minutes_to_next,
                                           visited + 1, limit, is_circular, target_name)

\* eta_to adding the minutes of the station it moves to (cur = nxt placed
\* before minutes += cur.station.minutes_to_next).
RECURSIVE eta_loop_adds_next(_, _, _, _, _, _, _)
eta_loop_adds_next(ns, cur, minutes, visited, limit, is_circular, target_name) ==
    IF Lower(ns[cur].station.name) = Lower(target_name)
    THEN EtaRun(minutes, visited + 1, visited)
    ELSE LET nxt == ns[cur].next IN
         IF nxt = None THEN EtaRun(NoEta, visited + 1, visited)
         ELSE IF is_circular /\ visited + 1 > limit
         THEN EtaRun(NoEta, visited + 1, visited + 1)
         ELSE eta_loop_adds_next(ns, nxt, minutes + ns[nxt].station.minutes_to_next,
                                 visited + 1, limit, is_circular, target_name)

\* The while True loop of eta_to, entered with cur, minutes and visited.
RECURSIVE eta_loop(_, _, _, _, _, _, _)
eta_loop(ns, cur, minutes, visited, limit, is_circular, target_name) ==
    IF Lower(ns[cur].station.name) = Lower(target_name)
    THEN EtaRun(minutes, visited + 1, visited)
    ELSE LET nxt == ns[cur].next IN
         IF nxt = None THEN EtaRun(NoEta, visited + 1, visited)
         ELSE IF ~is_circular /\ nxt = None THEN EtaRun(NoEta, visited + 1, visited + 1)
         ELSE IF is_circular /\ visited + 1 > limit
         THEN EtaRun(NoEta, visited + 1, visited + 1)
         ELSE eta_loop(ns, nxt, minutes + ns[cur].station.minutes_to_next,
                       visited + 1, limit, is_circular, target_name)

eta_run(W, target_name) ==
    IF W.current_node = None THEN EtaRun(NoEta, 0, 0)
    ELSE LET is_circular == W.route.kind = "circular"
             limit == IF is_circular THEN CircularRoute_size(W) ELSE 1000000000
         IN eta_loop(W.nodes, W.current_node, 0, 0, limit, is_circular, target_name)

eta_to(W, target_name) ==
    [W EXCEPT !.ret = Returns("eta_to", eta_run(W, target_name).value)]

\* ------------------------------------------------------------------------
\* The generator of CircularRoute.iter_once
\* ------------------------------------------------------------------------
\* A generator runs when the caller asks it for the next value and is
\* suspended at its yield in between: "created" before the first value is
\* asked for, "suspended" at yield cur, "finished" after it returned or
\* raised.  cur is its local cur and left the number of values the for
\* loop over range(self._size) has still to give.
Generator(pc, cur, left) == [pc |-> pc, cur |-> cur, left |-> left]

\* No call of iter_once has been made.
NoGenerator == Generator("none", None, 0)

\* loop.iter_once(): the body does not run before the first value is asked
\* for.
iter_once_call == Generator("created", None, 0)

\* What asking a generator for its next value gives: the generator after
\* it and the value it yielded, StopIteration or the error raised.
Resumed(G, r) == [gen |-> G, ret |-> r]

\* The for loop of iter_once at its test, with cur and left: it yields cur
\* or ends.
iter_once_for(cur, left) ==
    IF left = 0
    THEN Resumed(Generator("finished", cur, 0), Returns("StopIteration", None))
    ELSE Resumed(Generator("suspended", cur, left - 1), Returns("yield", cur))

\* next(g) on the generator G of iter_once, the route being as W has it.
iter_once_next(W, G) ==
    IF G.pc = "created"
    THEN IF W.route.head = None
         THEN Resumed(Generator("finished", None, 0), Returns("StopIteration", None))
         ELSE iter_once_for(W.route.head, W.route.size)
    ELSE IF G.pc = "suspended"
    THEN IF G.cur = None
         THEN Resumed(Generator("finished", None, 0),
                      Returns("iter_once", "AttributeError"))
         ELSE iter_once_for(W.nodes[G.cur].next, G.left)
    ELSE Resumed(G, Returns("StopIteration", None))

\* ------------------------------------------------------------------------
\* The catalog as a state machine: one action per method call
\* ------------------------------------------------------------------------
LibInit ==
    /\ books = <<>>
    /\ head = None
    /\ undo_stack = <<>>
    /\ out = ""
    /\ prev_out = ""
    /\ net_pushes = 0
    /\ nodes = <<>>
    /\ route = EmptyRoute("linear")
    /\ current_node = None
    /\ ret = Returns("TrainCursor", None)
    /\ expected = <<>>
    /\ gen = NoGenerator

\* What a call that printed the message counts for: a borrow or return
\* that succeeded 1, an undo that succeeded -1, any other call 0.
Pushed(message) ==
    IF message \in {"You borrowed", "You returned"} THEN 1
    ELSE IF message \in {"Undo: Returned", "Undo: Borrowed"} THEN -1
    ELSE 0

\* The state after a call that returned L.
LibBecomes(L) ==
    /\ books' = L.books
    /\ head' = L.head
    /\ undo_stack' = L.undo_stack
    /\ out' = L.out
    /\ prev_out' = out
    /\ net_pushes' = net_pushes + Pushed(L.out)
    /\ UNCHANGED route_vars

AddBook ==
    /\ Len(books) < MaxBooks
    /\ \E title \in Titles : LibBecomes(add_book(Lib, title))

\* A call that would push onto a stack of MaxUndo records is not made.
BorrowBook ==
    \E title \in Titles :
        /\ Len(borrow_book(Lib, title).undo_stack) <= MaxUndo
        /\ LibBecomes(borrow_book(Lib, title))

ReturnBook ==
    \E title \in Titles :
        /\ Len(return_book(Lib, title).undo_stack) <= MaxUndo
        /\ LibBecomes(return_book(Lib, title))

Undo == LibBecomes(undo(Lib))

LibNext == AddBook \/ BorrowBook \/ ReturnBook \/ Undo

LibSpec == LibInit /\ [][LibNext]_vars

\* ------------------------------------------------------------------------
\* The route planner as a state machine: one action per method call
\* ------------------------------------------------------------------------
\* Largest number of Node objects ever created.
MaxNodes == 3
\* Largest steps argument of next and prev.
MaxSteps == 4

\* A route of either class, just constructed without stations, and a
\* cursor constructed on it.
RouteInit ==
    /\ books = <<>>
    /\ head = None
    /\ undo_stack = <<>>
    /\ out = ""
    /\ prev_out = ""
    /\ net_pushes = 0
    /\ nodes = <<>>
    /\ \E kind \in {"linear", "circular"} : route = EmptyRoute(kind)
    /\ current_node = None
    /\ ret = Returns("TrainCursor", None)
    /\ expected = <<>>
    /\ gen = NoGenerator

\* The state after a call that returned W, the route then being meant to
\* hold the nodes of seq in that order.
RouteBecomes(W, seq) ==
    /\ nodes' = W.nodes
    /\ route' = W.route
    /\ current_node' = W.current_node
    /\ ret' = W.ret
    /\ expected' = seq
    /\ UNCHANGED gen
    /\ UNCHANGED lib_vars

\* The handles a caller holds of elements currently in the route.
InRoute == { expected[i] : i \in 1..Len(expected) }

IndexOf(seq, n) == CHOOSE i \in 1..Len(seq) : seq[i] = n

\* seq with n put right after the element a, and seq without n.
InsertAfter(seq, a, n) ==
    SubSeq(seq, 1, IndexOf(seq, a)) \o <<n>> \o SubSeq(seq, IndexOf(seq, a) + 1, Len(seq))

Without(seq, n) ==
    SubSeq(seq, 1, IndexOf(seq, n) - 1) \o SubSeq(seq, IndexOf(seq, n) + 1, Len(seq))

LinearAppend ==
    /\ route.kind = "linear"
    /\ Len(nodes) < MaxNodes
    /\ \E st \in Stations :
          RouteBecomes(DoublyLinkedRoute_append(World, st),
                       Append(expected, Len(nodes) + 1))

LinearInsertAfter ==
    /\ route.kind = "linear"
    /\ Len(nodes) < MaxNodes
    /\ \E anchor \in InRoute : \E st \in Stations :
          RouteBecomes(DoublyLinkedRoute_insert_after(World, anchor, st),
                       InsertAfter(expected, anchor, Len(nodes) + 1))

LinearRemove ==
    /\ route.kind = "linear"
    /\ \E node \in InRoute :
          RouteBecomes(DoublyLinkedRoute_remove(World, node), Without(expected, node))

CircularAppend ==
    /\ route.kind = "circular"
    /\ Len(nodes) < MaxNodes
    /\ \E st \in Stations :
          RouteBecomes(CircularRoute_append(World, st),
                       Append(expected, Len(nodes) + 1))

CircularInsertAfter ==
    /\ route.kind = "circular"
    /\ Len(nodes) < MaxNodes
    /\ \E anchor \in InRoute : \E st \in Stations :
          RouteBecomes(CircularRoute_insert_after(World, anchor, st),
                       InsertAfter(expected, anchor, Len(nodes) + 1))

CircularRemove ==
    /\ route.kind = "circular"
    /\ \E node \in InRoute :
          RouteBecomes(CircularRoute_remove(World, node), Without(expected, node))

NewCursor ==
    \E start \in Names \cup {<<>>} :
        RouteBecomes(TrainCursor_init(World, start), expected)

CursorNext ==
    \E steps \in 0..MaxSteps : RouteBecomes(next(World, steps), expected)

CursorPrev ==
    \E steps \in 0..MaxSteps : RouteBecomes(prev(World, steps), expected)

JumpTo ==
    \E name \in Names : RouteBecomes(jump_to(World, name), expected)

EtaTo ==
    \E name \in Names : RouteBecomes(eta_to(World, name), expected)

RouteNext ==
    \/ LinearAppend \/ LinearInsertAfter \/ LinearRemove
    \/ CircularAppend \/ CircularInsertAfter \/ CircularRemove
    \/ NewCursor \/ CursorNext \/ CursorPrev \/ JumpTo \/ EtaTo

RouteSpec == RouteInit /\ [][RouteNext]_vars

\* ------------------------------------------------------------------------
\* A circular route changed while iter_once is being consumed
\* ------------------------------------------------------------------------
IterInit == RouteInit /\ route.kind = "circular"

\* g = loop.iter_once()
IterOnce ==
    /\ gen' = iter_once_call
    /\ ret' = Returns("iter_once", None)
    /\ UNCHANGED <<nodes, route, current_node, expected>>
    /\ UNCHANGED lib_vars

\* next(g), as a for statement over g does before each round.
IterResume ==
    /\ gen.pc \in {"created", "suspended"}
    /\ gen' = iter_once_next(World, gen).gen
    /\ ret' = iter_once_next(World, gen).ret
    /\ UNCHANGED <<nodes, route, current_node, expected>>
    /\ UNCHANGED lib_vars

IterNext ==
    \/ CircularAppend \/ CircularInsertAfter \/ CircularRemove
    \/ IterOnce \/ IterResume

IterSpec == IterInit /\ [][IterNext]_vars

\* ------------------------------------------------------------------------
\* Properties of the catalog
\* ------------------------------------------------------------------------
\* The nodes reached from node n by following next, at most fuel of them.
RECURSIVE Chain(_, _, _)
Chain(bs, n, fuel) ==
    IF n = None \/ fuel = 0 THEN <<>>
    ELSE <<n>> \o Chain(bs, bs[n].next, fuel - 1)

\* The catalog's linked sequence from head.
Catalog == Chain(books, head, Len(books) + 1)

LowerTitle(n) == Lower(books[n].title)

\* What a call changed: everything a caller can observe but the message.
SameCatalog(L) ==
    /\ L.books = books
    /\ L.head = head
    /\ L.undo_stack = undo_stack

\* C1: after every add_book call (duplicate titles and titles differing
\* only in case included) the sequence linked from head holds every node
\* once and is sorted in non-decreasing order of lower-cased title.
C1_Sorted ==
    /\ Len(Catalog) = Len(books)
    /\ \A i \in 1..Len(Catalog) : \A j \in 1..Len(Catalog) :
          i < j => ~StrLess(LowerTitle(Catalog[j]), LowerTitle(Catalog[i]))

\* A catalog of three books just extended by add_book, two of whose titles
\* differ only in case and two of which are the same title.
C1_Witness ==
    /\ out = "Added book"
    /\ Len(Catalog) = 3
    /\ \E i \in 1..3 : \E j \in 1..3 :
          /\ books[i].title # books[j].title
          /\ Lower(books[i].title) = Lower(books[j].title)
    /\ \E i \in 1..3 : \E j \in 1..3 : i # j /\ books[i].title = books[j].title

\* C2: borrow_book on an available entry followed at once by undo leaves
\* the entry available, and return_book on a borrowed entry followed at
\* once by undo leaves it borrowed; every entry's availability, the list
\* and the undo stack are then as before the borrow or return.
C2_UndoRestores ==
    \A title \in Titles :
        LET cur == find_title(books, head, title) IN
        cur # None =>
            /\ books[cur].available =>
                  LET B == borrow_book(Lib, title)
                      U == undo(B)
                  IN /\ ~B.books[cur].available
                     /\ U.books[cur].available
                     /\ SameCatalog(U)
            /\ ~books[cur].available =>
                  LET R == return_book(Lib, title)
                      U == undo(R)
                  IN /\ R.books[cur].available
                     /\ ~U.books[cur].available
                     /\ SameCatalog(U)

\* undo has just reversed the borrow made by the call before it, while
\* another entry is borrowed and its record is on the stack.
C2_Witness ==
    /\ prev_out = "You borrowed"
    /\ out = "Undo: Returned"
    /\ undo_stack # <<>>
    /\ \E n \in 1..Len(books) : ~books[n].available
    /\ \E n \in 1..Len(books) : books[n].available

\* C3: undo on an empty undo stack reports that there is nothing to undo
\* and changes no entry, not the list and not the stack.
C3_UndoEmpty ==
    undo_stack = <<>> =>
        LET U == undo(Lib) IN
        /\ U.out = "No actions to undo"
        /\ SameCatalog(U)

\* undo has just been refused on a catalog that holds books, after an
\* earlier undo emptied the stack.
C3_Witness ==
    /\ out = "No actions to undo"
    /\ prev_out = "Undo: Returned"
    /\ undo_stack = <<>>
    /\ Len(books) >= 2

\* C9 as claimed: the entry add_book has just created stands after entries
\* with a strictly smaller lower-cased title only, and before entries with
\* a greater or equal one only, so in front of every entry of equal title.
C9_BeforeFirstGreaterOrEqual ==
    out = "Added book" =>
        LET new_node == Len(books) IN
        \A i \in 1..Len(Catalog) : \A j \in 1..Len(Catalog) :
            Catalog[i] = new_node =>
                /\ j < i => StrLess(LowerTitle(Catalog[j]), LowerTitle(new_node))
                /\ j > i => ~StrLess(LowerTitle(Catalog[j]), LowerTitle(new_node))

\* C10: borrow_book on a title whose first match is unavailable,
\* return_book on a title whose first match is available, and either call
\* on a title no entry carries change no entry, not the list and not the
\* undo stack, and report the refusal; a call made afterwards therefore
\* does what it would have done without the refused call.
C10_RefusalsChangeNothing ==
    \A title \in Titles :
        LET cur == find_title(books, head, title)
            B == borrow_book(Lib, title)
            R == return_book(Lib, title)
        IN /\ (cur # None /\ ~books[cur].available) =>
                  SameCatalog(B) /\ B.out = "Book already borrowed"
           /\ (cur # None /\ books[cur].available) =>
                  SameCatalog(R) /\ R.out = "Book was not borrowed"
           /\ cur = None =>
                  /\ SameCatalog(B) /\ B.out = "Book not found"
                  /\ SameCatalog(R) /\ R.out = "Book not found"
           /\ \A X \in {B, R} : \A t2 \in Titles :
                  (X.out \notin {"You borrowed", "You returned"}) =>
                      /\ borrow_book(X, t2) = borrow_book(Lib, t2)
                      /\ return_book(X, t2) = return_book(Lib, t2)
                      /\ add_book(X, t2) = add_book(Lib, t2)
                      /\ undo(X) = undo(Lib)

\* A refused borrow_book of a borrowed book followed by a refused
\* return_book of an available one, with a record on the undo stack.
C10_Witness ==
    /\ prev_out = "Book already borrowed"
    /\ out = "Book was not borrowed"
    /\ undo_stack # <<>>

\* ------------------------------------------------------------------------
\* Properties of the routes and the cursor
\* ------------------------------------------------------------------------
Reverse(seq) == [i \in 1..Len(seq) |-> seq[Len(seq) + 1 - i]]

\* The cursor is on an element of the route.
Attached == current_node \in InRoute

\* Some station of the route carries the name, up to case.
Carried(name) ==
    \E n \in InRoute : Lower(nodes[n].station.name) = Lower(name)

\* The names a caller may ask for: those of Names and those of the stations.
AllNames == Names \cup { st.name : st \in Stations }

RECURSIVE SumMinutes(_)
SumMinutes(seq) ==
    IF seq = <<>> THEN 0
    ELSE nodes[Head(seq)].station.minutes_to_next + SumMinutes(Tail(seq))

\* The elements met from the cursor's element by following successor
\* links: to the tail on a linear route, once around on a circular route,
\* and the element alone when it is no longer in the route.
PathAhead ==
    IF ~Attached THEN <<current_node>>
    ELSE LET i == IndexOf(expected, current_node) IN
         IF route.kind = "circular"
         THEN SubSeq(expected, i, Len(expected)) \o SubSeq(expected, 1, i - 1)
         ELSE SubSeq(expected, i, Len(expected))

Matches(n, name) == Lower(nodes[n].station.name) = Lower(name)

\* The sum of minutes_to_next of the elements of path in front of the first
\* one that carries the name; NoEta when none carries it.
EtaAlong(path, name) ==
    IF \E j \in 1..Len(path) : Matches(path[j], name)
    THEN LET first == CHOOSE j \in 1..Len(path) :
                          /\ Matches(path[j], name)
                          /\ \A k \in 1..(j - 1) : ~Matches(path[k], name)
         IN SumMinutes(SubSeq(path, 1, first - 1))
    ELSE NoEta

\* C4: on a linear route, after any append, insert_after and remove calls
\* with handles of elements in the route, iter_forward yields the expected
\* sequence, iter_backward its reverse, head has no predecessor, tail no
\* successor, and a removed node has prev and next cleared.
C4_LinearShape ==
    route.kind = "linear" =>
        /\ iter_forward(World) = expected
        /\ iter_backward(World) = Reverse(expected)
        /\ (expected = <<>>) = (route.head = None)
        /\ (expected = <<>>) = (route.tail = None)
        /\ route.head # None => nodes[route.head].prev = None
        /\ route.tail # None => nodes[route.tail].next = None
        /\ \A n \in 1..Len(nodes) :
              n \notin InRoute => nodes[n].prev = None /\ nodes[n].next = None

\* The head of a three-element linear route, whose second element was put
\* in by insert_after, has just been removed.
C4_Witness ==
    /\ route.kind = "linear"
    /\ ret.op = "remove"
    /\ expected = <<3, 2>>

\* C5: on a non-empty circular route next(k) followed by prev(k) brings the
\* cursor back to the element it was on, for every k; next(1) from the
\* element in front of head lands on head; next(size()) lands on the
\* element the cursor was on.
C5_CircularRoundTrip ==
    (route.kind = "circular" /\ route.head # None /\ current_node # None) =>
        /\ \A k \in 0..MaxSteps :
              prev(next(World, k), k).current_node = current_node
        /\ current_node = nodes[route.head].prev =>
              /\ next(World, 1).current_node = route.head
              /\ next(World, 1).ret = Returns("next", route.head)
        /\ next(World, CircularRoute_size(World)).current_node = current_node

\* prev has just put the cursor on the last of three elements of a circular
\* route, from where next(1) wraps to head.
C5_Witness ==
    /\ route.kind = "circular"
    /\ Len(expected) = 3
    /\ ret = Returns("prev", expected[3])
    /\ current_node = expected[3]
    /\ next(World, 1).current_node = expected[1]
    /\ prev(next(World, 1), 1).current_node = expected[3]

\* C6: on either kind of route and with the cursor on any element of it,
\* eta_to of the name of the cursor's station is 0 and eta_to of a name no
\* station of the route carries ends and returns None.
C6_EtaSelfAndAbsent ==
    /\ current_node # None =>
          \A name \in AllNames :
              Matches(current_node, name) => eta_run(World, name).value = 0
    /\ Attached =>
          \A name \in AllNames :
              ~Carried(name) => eta_run(World, name).value = NoEta

\* eta_to has just returned None for a name absent from a circular route of
\* three elements, the cursor being on an element other than head.
C6_Witness ==
    /\ route.kind = "circular"
    /\ Len(expected) = 3
    /\ Attached /\ current_node # route.head
    /\ ret = Returns("eta_to", NoEta)
    /\ \E name \in Names : ~Carried(name)

\* C7: eta_to(target) is the sum of minutes_to_next of the elements from
\* the cursor's element up to, not including, the first element along the
\* successor links (wrapping once on a circular route) that carries the
\* target up to case, and None when there is none; so on a circular route
\* every station of the route has a numeric ETA from every element, and on
\* a linear route a target found only before the cursor has none.
C7_EtaIsSumAhead ==
    current_node # None =>
        \A name \in AllNames :
            /\ eta_run(World, name).value = EtaAlong(PathAhead, name)
            /\ (route.kind = "circular" /\ Attached /\ Carried(name)) =>
                  eta_run(World, name).value >= 0
            /\ (/\ route.kind = "linear" /\ Attached /\ Carried(name)
                /\ \A n \in InRoute :
                      Matches(n, name) =>
                          IndexOf(expected, n) < IndexOf(expected, current_node))
               => eta_run(World, name).value = NoEta

\* On the circular route "N" 1, "e" 4, "n" 2 with the cursor on "n",
\* eta_to has just returned 2 + 1: the target "E" lies behind the cursor and
\* is reached through head.
C7_Witness ==
    /\ route.kind = "circular"
    /\ Len(expected) = 3
    /\ nodes[expected[1]].station = Station(<<78>>, 1)
    /\ nodes[expected[2]].station = Station(<<101>>, 4)
    /\ nodes[expected[3]].station = Station(<<110>>, 2)
    /\ current_node = expected[3]
    /\ ret = Returns("eta_to", 3)

\* C8: removing the only element of a circular route leaves it empty: head
\* None, size() 0, the removed node's prev and next None, and find of any
\* name None afterwards.
C8_RemoveSoleElement ==
    route.kind = "circular" =>
        /\ (route.head # None /\ CircularRoute_size(World) = 1) =>
              LET R == CircularRoute_remove(World, route.head) IN
              /\ R.route.head = None
              /\ CircularRoute_size(R) = 0
              /\ R.nodes[route.head].prev = None
              /\ R.nodes[route.head].next = None
              /\ \A name \in AllNames : CircularRoute_find(R, name) = None
        /\ expected = <<>> =>
              /\ route.head = None
              /\ CircularRoute_size(World) = 0
              /\ \A n \in 1..Len(nodes) :
                    nodes[n].prev = None /\ nodes[n].next = None
              /\ \A name \in AllNames : CircularRoute_find(World, name) = None

\* The last of three elements of a circular route has just been removed.
C8_Witness ==
    /\ route.kind = "circular"
    /\ ret.op = "remove"
    /\ Len(nodes) = 3
    /\ expected = <<>>
    /\ route.head = None


\* ------------------------------------------------------------------------
\* Duplicate titles and the undo stack
\* ------------------------------------------------------------------------
\* The first entry of the catalog, from head, that carries the title up to
\* case; None when there is none.
FirstMatch(title) ==
    IF \E i \in 1..Len(Catalog) : LowerTitle(Catalog[i]) = Lower(title)
    THEN Catalog[CHOOSE i \in 1..Len(Catalog) :
                     /\ LowerTitle(Catalog[i]) = Lower(title)
                     /\ \A j \in 1..(i - 1) : LowerTitle(Catalog[j]) # Lower(title)]
    ELSE None

\* The entries whose availability the call that returned L changed.
Changed(L) == { n \in 1..Len(books) : L.books[n].available # books[n].available }

\* The entry the top record of the undo stack refers to.
TopBook == undo_stack[Len(undo_stack)][2]

\* borrow_book and return_book change at most the first match of the title
\* they are called with.
BorrowReturnOnFirstMatch ==
    \A title \in Titles :
        /\ Changed(borrow_book(Lib, title)) \subseteq {FirstMatch(title)}
        /\ Changed(return_book(Lib, title)) \subseteq {FirstMatch(title)}
        /\ FirstMatch(title) # None =>
              \/ Changed(borrow_book(Lib, title)) = {FirstMatch(title)}
              \/ Changed(return_book(Lib, title)) = {FirstMatch(title)}

\* C11 as claimed: every availability change of borrow_book, return_book
\* and undo is made to the entry that is then the first match of its title.
C11_AlwaysFirstMatch ==
    /\ BorrowReturnOnFirstMatch
    /\ \A n \in Changed(undo(Lib)) : n = FirstMatch(books[n].title)

\* C11 amended: borrow_book and return_book change the entry that is then
\* the first match of the title and no other; undo changes the entry of the
\* record it pops and no other, which was the first match of its title when
\* the record was pushed.
C11_FirstMatchOrRecorded ==
    /\ BorrowReturnOnFirstMatch
    /\ undo_stack # <<>> => Changed(undo(Lib)) = {TopBook}
    /\ undo_stack = <<>> => Changed(undo(Lib)) = {}
    /\ out \in {"You borrowed", "You returned"} =>
          TopBook = FirstMatch(books[TopBook].title)

\* add_book put an equal title in front of a returned entry and undo then
\* made that entry borrowed again: the first match of the title is available
\* and a later entry of the same title is not.
C11_Witness ==
    /\ prev_out = "Added book"
    /\ out = "Undo: Borrowed"
    /\ \E n \in 1..Len(books) :
          /\ ~books[n].available
          /\ FirstMatch(books[n].title) # n
          /\ books[FirstMatch(books[n].title)].available


\* ------------------------------------------------------------------------
\* The circular route's shape
\* ------------------------------------------------------------------------
\* The nodes on the cycle through start, by next, from cur until start comes
\* up again.
RECURSIVE CycleFrom(_, _, _)
CycleFrom(start, cur, fuel) ==
    IF cur = None \/ fuel = 0 THEN <<>>
    ELSE IF nodes[cur].next = start THEN <<cur>>
    ELSE <<cur>> \o CycleFrom(start, nodes[cur].next, fuel - 1)

Cycle == CycleFrom(route.head, route.head, Len(nodes) + 1)

\* C12: on a circular route, after any append, insert_after and remove
\* calls with handles of elements in the route, size() is the number of
\* elements on the cycle through head and is 0 exactly when head is None,
\* next and prev are inverse to each other on every element, and iter_once
\* yields every element once, from head, in successor order.
C12_CircularShape ==
    route.kind = "circular" =>
        /\ CircularRoute_size(World) = Len(Cycle)
        /\ (CircularRoute_size(World) = 0) = (route.head = None)
        /\ \A n \in InRoute :
              /\ nodes[n].next # None /\ nodes[nodes[n].next].prev = n
              /\ nodes[n].prev # None /\ nodes[nodes[n].prev].next = n
        /\ iter_once(World) = expected
        /\ iter_once(World) = Cycle
        /\ \A i \in 1..Len(expected) : \A j \in 1..Len(expected) :
              expected[i] = expected[j] => i = j
        /\ expected # <<>> => expected[1] = route.head

\* insert_after has just put a third node into a circular route whose first
\* head was removed before.
C12_Witness ==
    /\ route.kind = "circular"
    /\ ret.op = "insert_after"
    /\ Len(nodes) = 3
    /\ Len(expected) = 2
    /\ route.head = 2


\* ------------------------------------------------------------------------
\* The length of eta_to's walk
\* ------------------------------------------------------------------------
\* C13 as claimed: on a circular route of n elements eta_to compares at
\* most n station names and follows at most n successor links before it
\* returns, whether or not the target is in the route.
C13_AtMostOneLoop ==
    (route.kind = "circular" /\ Attached) =>
        \A name \in AllNames :
            /\ eta_run(World, name).examined <= CircularRoute_size(World)
            /\ eta_run(World, name).followed <= CircularRoute_size(World)


\* ------------------------------------------------------------------------
\* The cursor on a linear route
\* ------------------------------------------------------------------------
Min(a, b) == IF a < b THEN a ELSE b

Max(a, b) == IF a > b THEN a ELSE b

\* C14: on a linear route of n elements with the cursor on the i-th,
\* next(k) leaves the cursor on element min(i + k, n) and prev(k) on element
\* max(i - k, 1), counting from 1, for every k >= 0; neither raises nor
\* leaves the cursor without a position.
C14_LinearClamp ==
    (route.kind = "linear" /\ Attached) =>
        LET i == IndexOf(expected, current_node)
            n == Len(expected)
        IN \A k \in 0..MaxSteps :
              /\ next(World, k).current_node = expected[Min(i + k, n)]
              /\ next(World, k).ret = Returns("next", expected[Min(i + k, n)])
              /\ prev(World, k).current_node = expected[Max(i - k, 1)]
              /\ prev(World, k).ret = Returns("prev", expected[Max(i - k, 1)])

\* next has just left the cursor on the tail of a linear route of three
\* elements, and prev with more steps than elements leads to head.
C14_Witness ==
    /\ route.kind = "linear"
    /\ Len(expected) = 3
    /\ ret = Returns("next", route.tail)
    /\ current_node = route.tail
    /\ next(World, MaxSteps).current_node = route.tail
    /\ prev(World, MaxSteps).current_node = route.head


\* ------------------------------------------------------------------------
\* Removing the head of a circular route
\* ------------------------------------------------------------------------
\* C15: removing the head of a circular route of two or more elements makes
\* the head's former successor the head, lowers size() by one and leaves
\* the other elements in their cyclic order.
C15_RemoveHead ==
    (route.kind = "circular" /\ CircularRoute_size(World) >= 2) =>
        LET R == CircularRoute_remove(World, route.head) IN
        /\ R.route.head = nodes[route.head].next
        /\ R.route.head = expected[2]
        /\ CircularRoute_size(R) = CircularRoute_size(World) - 1
        /\ iter_once(R) = Tail(expected)
        /\ \A n \in InRoute \ {route.head} :
              /\ R.nodes[n].next =
                    IF nodes[n].next = route.head THEN R.route.head ELSE nodes[n].next
              /\ R.nodes[n].prev =
                    IF nodes[n].prev = route.head THEN nodes[route.head].prev
                    ELSE nodes[n].prev

\* The head of a circular route of three elements has just been removed:
\* the second element is the head of the remaining two.
C15_Witness ==
    /\ route.kind = "circular"
    /\ ret.op = "remove"
    /\ Len(nodes) = 3
    /\ expected = <<2, 3>>
    /\ route.head = 2
    /\ CircularRoute_size(World) = 2


\* ------------------------------------------------------------------------
\* The length of the undo stack
\* ------------------------------------------------------------------------
\* C16: undo never pushes: a successful undo shortens the undo stack by
\* one, a successful borrow_book or return_book lengthens it by one, any
\* other call leaves its length alone; so the length of the stack is the
\* number of successful borrows and returns less that of successful undos.
C16_StackLength ==
    /\ Len(undo_stack) = net_pushes
    /\ Len(undo(Lib).undo_stack) = Len(undo_stack) + Pushed(undo(Lib).out)
    /\ Pushed(undo(Lib).out) = IF undo_stack = <<>> THEN 0 ELSE -1
    /\ \A title \in Titles :
          /\ Len(borrow_book(Lib, title).undo_stack)
                = Len(undo_stack) + Pushed(borrow_book(Lib, title).out)
          /\ Len(return_book(Lib, title).undo_stack)
                = Len(undo_stack) + Pushed(return_book(Lib, title).out)
          /\ Pushed(borrow_book(Lib, title).out) \in {0, 1}
          /\ Pushed(return_book(Lib, title).out) \in {0, 1}
          /\ add_book(Lib, title).undo_stack = undo_stack

\* A second undo in a row has just succeeded and left one of three records
\* on the stack.
C16_Witness ==
    /\ prev_out \in {"Undo: Returned", "Undo: Borrowed"}
    /\ out \in {"Undo: Returned", "Undo: Borrowed"}
    /\ Len(undo_stack) = 1
    /\ net_pushes = 1


\* ------------------------------------------------------------------------
\* Availability and the records of the undo stack
\* ------------------------------------------------------------------------
\* The actions of the records of the undo stack that refer to entry n, from
\* the bottom of the stack.
RECURSIVE ActionsOn(_, _)
ActionsOn(stack, n) ==
    IF stack = <<>> THEN <<>>
    ELSE IF Head(stack)[2] = n THEN <<Head(stack)[1]>> \o ActionsOn(Tail(stack), n)
    ELSE ActionsOn(Tail(stack), n)

\* C17: in every state reached by add_book, borrow_book, return_book and
\* undo an entry is unavailable exactly when an odd number of undo records
\* refer to it, its records being borrow, return, borrow, ... from the
\* bottom; so every entry is available when the undo stack is empty.
C17_AvailabilityParity ==
    /\ \A n \in 1..Len(books) :
          LET acts == ActionsOn(undo_stack, n) IN
          /\ ~books[n].available = (Len(acts) % 2 = 1)
          /\ \A k \in 1..Len(acts) :
                acts[k] = IF k % 2 = 1 THEN "borrow" ELSE "return"
    /\ \A k \in 1..Len(undo_stack) : undo_stack[k][2] \in 1..Len(books)
    /\ undo_stack = <<>> => \A n \in 1..Len(books) : books[n].available

\* borrow_book has just borrowed an entry while the stack holds a borrow and
\* a return record of another entry.
C17_Witness ==
    /\ out = "You borrowed"
    /\ Len(undo_stack) = 3
    /\ \E n \in 1..Len(books) : \E m \in 1..Len(books) :
          /\ ActionsOn(undo_stack, n) = <<"borrow", "return">>
          /\ books[n].available
          /\ ActionsOn(undo_stack, m) = <<"borrow">>
          /\ ~books[m].available


\* ------------------------------------------------------------------------
\* Removing a node of a linear route twice
\* ------------------------------------------------------------------------
\* C18 as claimed: remove called again with a handle already removed from a
\* linear route leaves head, tail and the sequence of elements as the first
\* removal left them.
C18_RemoveIdempotent ==
    route.kind = "linear" =>
        \A node \in InRoute :
            LET R1 == DoublyLinkedRoute_remove(World, node)
                R2 == DoublyLinkedRoute_remove(R1, node)
            IN /\ R2.route.head = R1.route.head
               /\ R2.route.tail = R1.route.tail
               /\ iter_forward(R2) = iter_forward(R1)
               /\ iter_backward(R2) = iter_backward(R1)


\* ------------------------------------------------------------------------
\* The cursor whose element was removed
\* ------------------------------------------------------------------------
\* The cursor is on a node that is no longer in the route.
Stranded == current_node # None /\ current_node \notin InRoute

\* What the calls on a stranded cursor do: current() returns the removed
\* station, next(k) and prev(k) return it and do not move, eta_to returns 0
\* or None, jump_to moves the cursor into the route or leaves it alone.
StrandedInert ==
    Stranded =>
        /\ current(World) = current_node
        /\ \A k \in 0..MaxSteps :
              /\ next(World, k).current_node = current_node
              /\ next(World, k).ret = Returns("next", current_node)
              /\ prev(World, k).current_node = current_node
              /\ prev(World, k).ret = Returns("prev", current_node)
        /\ \A name \in AllNames :
              /\ eta_run(World, name).value \in {0, NoEta}
              /\ IF route_find(World, name) # None
                 THEN /\ jump_to(World, name).current_node \in InRoute
                      /\ jump_to(World, name).ret = Returns("jump_to", TRUE)
                 ELSE /\ jump_to(World, name).current_node = current_node
                      /\ jump_to(World, name).ret = Returns("jump_to", FALSE)

\* A step from a state with a stranded cursor: unless it is a jump_to that
\* succeeded (or the construction of another cursor) the cursor is on the
\* same removed node afterwards; the removal of the cursor's element is
\* what strands it.
StrandedStays ==
    /\ (/\ Stranded
        /\ ~(ret'.op = "jump_to" /\ ret'.value = TRUE)
        /\ ret'.op # "TrainCursor")
       => (current_node' = current_node /\ Stranded')
    /\ (/\ current_node \in InRoute
        /\ ret'.op = "remove"
        /\ current_node \notin { expected'[i] : i \in 1..Len(expected') })
       => (current_node' = current_node /\ Stranded')

\* C19: once the element a cursor is on has been removed from its route,
\* linear or circular, no call on the cursor faults and the cursor stays on
\* the removed element: current() returns the removed station and next(k)
\* and prev(k) do not move it, until a jump_to that succeeds.
C19_StrandedCursor == []StrandedInert /\ [][StrandedStays]_vars

\* next has just returned the removed station to a cursor stranded beside a
\* circular route that still holds two elements.
C19_Witness ==
    /\ route.kind = "circular"
    /\ Stranded
    /\ Len(expected) = 2
    /\ ret = Returns("next", current_node)


\* ------------------------------------------------------------------------
\* The values of iter_once
\* ------------------------------------------------------------------------
\* C20 as claimed: every value iter_once yields is an element of the route
\* and never None, also when the element just yielded, or another one, is
\* removed between two values.
C20_YieldsElements ==
    ret.op = "yield" => (ret.value # None /\ ret.value \in InRoute)

====
